---- MODULE Spec2Model ----
(***************************************************************************)
(* The power-consumption regression script (code.py) as a state machine.   *)
(* The script is one straight line of library calls; every commented       *)
(* section of the script is one action, and an exception raised inside a   *)
(* section ends the run (pc = "aborted", error names the exception).       *)
(*                                                                         *)
(* Three specifications share the definitions of the script's steps:       *)
(*   Spec      the run from the loaded file to the end of the grid search  *)
(*             (lines 15-82);                                              *)
(*   SpecEval  the evaluator (lines 84-136), started from what lines 71-82 *)
(*             hand over when the search returns a selected model;         *)
(*   SpecPre   the preprocessing transformer (lines 39-55) fitted on one   *)
(*             set of rows and applied to another.                         *)
(***************************************************************************)
EXTENDS Integers, Sequences, FiniteSets, TLC

VARIABLES
    pc,          \* the section of the script that runs next
    error,       \* the exception that ended the run, "" while none
    pandas2,     \* the build: pandas >= 2.0 (TRUE) or 1.3 .. 1.5 (FALSE)
    csv,         \* the table as read from the file at data_path (the file is never written)
    columns,     \* data.columns, in order
    dtypes,      \* data.dtypes: column -> declared type
    data,        \* the rows of data, in order; each row carries its index label
    features,    \* line 33
    num_cols,    \* line 36
    cat_cols,    \* line 37
    X,           \* line 72: the rows of data[features], each with its index label
    y,           \* line 73: data[target], each value with its index label
    X_train,     \* index labels of X_train, in the split's order
    X_test,      \* index labels of X_test (also y_test.index), in the split's order
    grid_search, \* the GridSearchCV object: candidate position, cv_results_, best_params_
    best_model,  \* grid_search.best_estimator_, refitted on the training split
    y_pred,      \* line 85
    metrics,     \* lines 86-88: mse, mae, r2 as fractions
    cv_scores,   \* line 101
    feature_importance_df,  \* lines 109-110
    charts,      \* the figures shown so far (plt.show), in order
    pre_in,      \* SpecPre: the rows the transformer is fitted on and applied to
    pre_out      \* SpecPre: the fitted transformer and the matrix it produced

envVars == <<pandas2, csv>>
tableVars == <<columns, dtypes, data>>
classVars == <<features, num_cols, cat_cols>>
splitVars == <<X, y, X_train, X_test>>
searchVars == <<grid_search, best_model>>
evalVars == <<y_pred, metrics, cv_scores, feature_importance_df, charts>>
preVars == <<pre_in, pre_out>>

vars == <<pc, error, envVars, tableVars, classVars, splitVars, searchVars, evalVars,
          preVars>>

(***************************************************************************)
(* Bounds of the model.                                                    *)
(***************************************************************************)
MaxRows == 7        \* lines of the input file (Spec)

(***************************************************************************)
(* Cell values.  A numeric cell is a number or NaN; a string cell is a    *)
(* string, the missing one read by read_csv as NaN; a parsed timestamp is  *)
(* its calendar fields, or NaT.                                            *)
(***************************************************************************)
NaN == [nan |-> TRUE, v |-> 0]
Num(n) == [nan |-> FALSE, v |-> n]
NaNStr == "NaN"
NaT == [nat |-> TRUE, year |-> 0, month |-> 0, day |-> 0, hour |-> 0,
        dayofweek |-> 0, t |-> 0]
Timestamp(yr, mo, dy, hr, wd, t) ==
    [nat |-> FALSE, year |-> yr, month |-> mo, day |-> dy, hour |-> hr,
     dayofweek |-> wd, t |-> t]

\* The timestamp texts the parser accepts, with the moment each denotes
\* (t: hours since 2016-12-31 00:00).  Line k of the file, when its timestamp
\* is well formed, carries the k-th text.
StampTable ==
    << [text |-> "2016-12-31 22:00", ts |-> Timestamp(2016, 12, 31, 22, 5, 22)],
       [text |-> "2016-12-31 23:00", ts |-> Timestamp(2016, 12, 31, 23, 5, 23)],
       [text |-> "2017-01-01 00:00", ts |-> Timestamp(2017, 1, 1, 0, 6, 24)],
       [text |-> "2017-01-01 01:00", ts |-> Timestamp(2017, 1, 1, 1, 6, 25)],
       [text |-> "2017-01-02 00:00", ts |-> Timestamp(2017, 1, 2, 0, 0, 48)],
       [text |-> "2017-01-31 23:00", ts |-> Timestamp(2017, 1, 31, 23, 1, 767)],
       [text |-> "2017-02-01 00:00", ts |-> Timestamp(2017, 2, 1, 0, 2, 768)],
       [text |-> "2017-02-01 12:00", ts |-> Timestamp(2017, 2, 1, 12, 2, 780)],
       [text |-> "2017-02-02 06:00", ts |-> Timestamp(2017, 2, 2, 6, 3, 798)],
       [text |-> "2017-02-03 18:00", ts |-> Timestamp(2017, 2, 3, 18, 4, 834)],
       [text |-> "2017-02-04 09:00", ts |-> Timestamp(2017, 2, 4, 9, 5, 849)],
       [text |-> "2017-02-05 10:00", ts |-> Timestamp(2017, 2, 5, 10, 6, 874)] >>

\* A text no date format accepts, and the missing cell.
BadStampTexts == {"not a date", NaNStr}

\* pd.to_datetime(text, errors='coerce'): the moment the text denotes, NaT for
\* a text that does not parse and for a missing cell.
to_datetime(text) ==
    IF \E k \in 1..Len(StampTable) : StampTable[k].text = text
    THEN StampTable[CHOOSE k \in 1..Len(StampTable) : StampTable[k].text = text].ts
    ELSE NaT

(***************************************************************************)
(* Index labels: read_csv numbers the rows 0, 1, 2, ... ; set_index makes  *)
(* the timestamps the labels.                                              *)
(***************************************************************************)
IntLabel(n) == [kind |-> "int64", v |-> n]
TimeLabel(ts) == [kind |-> "datetime64[ns]", v |-> ts.t]

(***************************************************************************)
(* The input file.  Its columns are the timestamp, the target and three    *)
(* other columns; read_csv infers each column's type from its cells.       *)
(***************************************************************************)
target == "consumption"

RawColumns == <<"timestamp", "consumption", "temp", "site", "holiday">>

\* The declared types read_csv can give the columns of such a file.
Schemas ==
    { [timestamp |-> "object", consumption |-> "float64", temp |-> "float64",
       site |-> "object", holiday |-> "bool"],
      [timestamp |-> "object", consumption |-> "int64", temp |-> "int64",
       site |-> "int64", holiday |-> "int64"],
      [timestamp |-> "object", consumption |-> "float64", temp |-> "float64",
       site |-> "object", holiday |-> "object"],
      [timestamp |-> "object", consumption |-> "object", temp |-> "float64",
       site |-> "object", holiday |-> "bool"] }

\* The cell of column col in the file's line with label n, for a column of
\* declared type dt.  A float64 or object column has missing cells.
Cell(col, dt, n) ==
    CASE col = "consumption" ->
           IF dt = "object" THEN (IF n % 2 = 0 THEN "low" ELSE "high")
           ELSE Num((3 * n + 1) % 5)
      [] col = "temp" ->
           IF dt = "float64" /\ n % 4 = 3 THEN NaN ELSE Num(2 * (n % 3))
      [] col = "site" ->
           IF dt = "object"
           THEN (IF n % 5 = 4 THEN NaNStr ELSE IF n % 2 = 0 THEN "A" ELSE "B")
           ELSE Num(n % 2)
      [] col = "holiday" ->
           CASE dt = "bool" -> (n % 3 = 0)
             [] dt = "object" -> (IF n % 3 = 0 THEN "yes" ELSE "no")
             [] OTHER -> Num(IF n % 3 = 0 THEN 1 ELSE 0)

\* pd.read_csv: the table of the file's lines, labelled 0 .. n-1.
read_csv(stamps, schema) ==
    [k \in 1..Len(stamps) |->
        [label |-> IntLabel(k - 1),
         timestamp |-> stamps[k],
         consumption |-> Cell("consumption", schema.consumption, k - 1),
         temp |-> Cell("temp", schema.temp, k - 1),
         site |-> Cell("site", schema.site, k - 1),
         holiday |-> Cell("holiday", schema.holiday, k - 1)]]

\* The timestamp column of a file of n lines: each line's text is well
\* formed, malformed or missing.
StampColumns(n) ==
    {[k \in 1..n |-> IF f[k] = "well formed" THEN StampTable[k].text ELSE f[k]] :
        f \in [1..n -> {"well formed"} \cup BadStampTexts]}

(***************************************************************************)
(* Sequence helpers.                                                       *)
(***************************************************************************)
Range(s) == {s[k] : k \in 1..Len(s)}

RECURSIVE Filter(_, _)
\* The members of sequence s that are not in set drop, in order.
Filter(s, drop) ==
    IF s = <<>> THEN <<>>
    ELSE IF Head(s) \in drop THEN Filter(Tail(s), drop)
         ELSE <<Head(s)>> \o Filter(Tail(s), drop)

RECURSIVE SumRange(_, _, _)
\* s[lo] + ... + s[hi], by halves.
SumRange(s, lo, hi) ==
    IF lo > hi THEN 0
    ELSE IF lo = hi THEN s[lo]
    ELSE LET mid == (lo + hi) \div 2
         IN  SumRange(s, lo, mid) + SumRange(s, mid + 1, hi)

Sum(s) == SumRange(s, 1, Len(s))

\* The sequence s itself, held as a tuple: its members are computed once and
\* not again at each use.
Tuple(s) == <<>> \o s

\* The sequences of k distinct members of set S.
Arrangements(S, k) ==
    {s \in [1..k -> S] : \A i, j \in 1..k : i # j => s[i] # s[j]}

\* The members of the set of labels L in increasing order.
RECURSIVE Ascending(_)
Ascending(L) ==
    IF L = {} THEN <<>>
    ELSE LET m == CHOOSE a \in L : \A b \in L : a.v <= b.v
         IN  <<m>> \o Ascending(L \ {m})

(***************************************************************************)
(* Lines 22-29: the feature deriver.                                       *)
(***************************************************************************)
\* Line 23: the timestamp column parsed in place.
ParsedRows(rows) ==
    [k \in 1..Len(rows) |-> [rows[k] EXCEPT !.timestamp = to_datetime(@)]]

RECURSIVE dropna_any_column(_)
\* dropna() without the subset: a row with a missing cell in any column goes.
dropna_any_column(rows) ==
    IF rows = <<>> THEN <<>>
    ELSE IF Head(rows).timestamp.nat \/ Head(rows).temp.nan
         THEN dropna_any_column(Tail(rows))
         ELSE <<Head(rows)>> \o dropna_any_column(Tail(rows))

RECURSIVE dropna(_)
\* Line 24: dropna(subset=['timestamp']): the rows whose timestamp is not NaT,
\* in order, each keeping its label.
dropna(rows) ==
    IF rows = <<>> THEN <<>>
    ELSE IF Head(rows).timestamp.nat THEN dropna(Tail(rows))
         ELSE <<Head(rows)>> \o dropna(Tail(rows))

CalendarColumns == <<"year", "month", "day", "hour", "dayofweek">>

\* Lines 25-29: the five calendar columns of a row.
WithCalendar(row) ==
    [label |-> row.label, timestamp |-> row.timestamp,
     consumption |-> row.consumption, temp |-> row.temp, site |-> row.site,
     holiday |-> row.holiday,
     year |-> Num(row.timestamp.year), month |-> Num(row.timestamp.month),
     day |-> Num(row.timestamp.day), hour |-> Num(row.timestamp.hour),
     dayofweek |-> Num(row.timestamp.dayofweek)]

\* The type of Series.dt.year and its siblings: int64 up to pandas 1.5,
\* int32 from pandas 2.0.
CalendarDtype(p2) == IF p2 THEN "int32" ELSE "int64"

\* data.dtypes after lines 23-29.
DerivedDtypes(dt, p2) ==
    [c \in Range(RawColumns) \cup Range(CalendarColumns) |->
        IF c = "timestamp" THEN "datetime64[ns]"
        ELSE IF c \in Range(RawColumns) THEN dt[c] ELSE CalendarDtype(p2)]

(***************************************************************************)
(* Lines 31-37: the column classifier.                                     *)
(***************************************************************************)
\* Index.drop(labels): KeyError when a label is not in the index.
DropRaises(cols, labels) == \E l \in labels : l \notin Range(cols)

\* data.select_dtypes(include=kinds).columns
select_dtypes(cols, dt, kinds) == Filter(cols, {c \in Range(cols) : dt[c] \notin kinds})

NumericDtypes == {"float64", "int64"}
CategoricalDtypes == {"object"}

\* Line 33.
Features(cols) == Filter(cols, {target, "timestamp"})
\* Line 36.
NumCols(cols, dt) == Filter(select_dtypes(cols, dt, NumericDtypes), {target})
\* Line 37.
CatCols(cols, dt) == select_dtypes(cols, dt, CategoricalDtypes)

(***************************************************************************)
(* Lines 64-69: the parameter grid.  alpha is held in tenths.              *)
(***************************************************************************)
Degrees == <<1, 2, 3>>
Estimators == <<"LinearRegression", "Ridge", "Lasso">>
Alphas == <<1, 10, 100>>

\* ParameterGrid(param_grid): the cross product in the order the search walks
\* it: keys sorted (model, model__alpha, poly_features__degree), the last key
\* varying fastest.
ParameterGrid ==
    [k \in 1..(Len(Estimators) * Len(Alphas) * Len(Degrees)) |->
        [model |-> Estimators[((k - 1) \div (Len(Alphas) * Len(Degrees))) + 1],
         alpha |-> Alphas[(((k - 1) \div Len(Degrees)) % Len(Alphas)) + 1],
         degree |-> Degrees[((k - 1) % Len(Degrees)) + 1]]]

\* The constructor parameters of each estimator that the grid can address.
EstimatorParams(est) ==
    CASE est = "LinearRegression" -> {"fit_intercept", "copy_X", "n_jobs", "positive"}
      [] est = "Ridge" -> {"alpha", "fit_intercept", "copy_X", "max_iter", "tol",
                           "solver", "positive", "random_state"}
      [] est = "Lasso" -> {"alpha", "fit_intercept", "precompute", "copy_X", "max_iter",
                           "tol", "warm_start", "positive", "random_state", "selection"}

\* pipeline.set_params(model=est, model__alpha=a, poly_features__degree=d)
\* replaces the model step, then sets alpha on the new step: ValueError
\* ("Invalid parameter 'alpha'") when the estimator has no such parameter.
SetParamsOk(params) == "alpha" \in EstimatorParams(params.model)

CvFolds == 5       \* cv=5, lines 77 and 101

\* The mean validation scores a fitted candidate can get (r2, opaque here).
Scores == {0, 1, 2}

(***************************************************************************)
(* Lines 71-74: the split.                                                 *)
(***************************************************************************)
\* The test size rounded down instead of up.
NTest_floor(n) == n \div 5

\* ceil(0.2 * n), the size of the test subset (test_size=0.2).
NTest(n) == (n + 4) \div 5
NTrain(n) == n - NTest(n)

Labels(rows) == {rows[k].label : k \in 1..Len(rows)}

\* Line 72: data[features], the rows keeping their labels.
FeatureRows(rows, feats) ==
    [k \in 1..Len(rows) |-> [c \in {"label"} \cup Range(feats) |-> rows[k][c]]]

\* Line 73: data[target].
TargetValues(rows) ==
    [k \in 1..Len(rows) |-> [label |-> rows[k].label, v |-> rows[k].consumption.v]]

\* train_test_split(X, y, test_size=0.2, random_state=42): the rows are
\* permuted, the first NTest of the permutation are the test subset and the
\* rest the training subset.  The permutation the seed gives is not modelled:
\* every arrangement is allowed.  The order of the training rows has no effect
\* on any later step and is kept increasing.
Splits(rows) ==
    {[test |-> t, train |-> Ascending(Labels(rows) \ Range(t))] :
        t \in Arrangements(Labels(rows), NTest(Len(rows)))}

(***************************************************************************)
(* The run, lines 15-82.                                                   *)
(***************************************************************************)
NoParams == [model |-> "", alpha |-> 0, degree |-> 0]
NoSearch == [cand |-> 0, cv_results |-> <<>>, best_index |-> 0, best_params |-> NoParams]
NoModel == [fitted |-> FALSE, params |-> NoParams]
NoMetrics == [computed |-> FALSE]

Untouched ==
    /\ y_pred = <<>> /\ metrics = NoMetrics /\ cv_scores = <<>>
    /\ feature_importance_df = <<>> /\ charts = <<>>
    /\ pre_in = <<>> /\ pre_out = <<>>

\* Line 15: the file is loaded.
Init ==
    /\ pc = "parse_timestamp"
    /\ error = ""
    /\ pandas2 \in BOOLEAN
    /\ columns = RawColumns
    /\ \E schema \in Schemas, n \in 0..MaxRows :
         \E stamps \in StampColumns(n) :
            /\ dtypes = schema
            /\ csv = read_csv(stamps, schema)
            /\ data = csv
    /\ features = <<>> /\ num_cols = <<>> /\ cat_cols = <<>>
    /\ X = <<>> /\ y = <<>> /\ X_train = <<>> /\ X_test = <<>>
    /\ grid_search = NoSearch
    /\ best_model = NoModel
    /\ Untouched

Abort(e) == pc' = "aborted" /\ error' = e

\* Line 23.
ParseTimestamp ==
    /\ pc = "parse_timestamp"
    /\ data' = ParsedRows(data)
    /\ dtypes' = [dtypes EXCEPT !.timestamp = "datetime64[ns]"]
    /\ pc' = "dropna"
    /\ UNCHANGED <<error, columns, envVars, classVars, splitVars, searchVars, evalVars, preVars>>

\* Line 24.
DropNaT ==
    /\ pc = "dropna"
    /\ data' = dropna(data)
    /\ pc' = "calendar"
    /\ UNCHANGED <<error, columns, dtypes, envVars, classVars, splitVars, searchVars, evalVars, preVars>>

\* Lines 25-29.
DeriveCalendar ==
    /\ pc = "calendar"
    /\ data' = [k \in 1..Len(data) |-> WithCalendar(data[k])]
    /\ columns' = columns \o CalendarColumns
    /\ dtypes' = DerivedDtypes(dtypes, pandas2)
    /\ pc' = "classify"
    /\ UNCHANGED <<error, envVars, classVars, splitVars, searchVars, evalVars, preVars>>

\* Lines 31-37.  columns.drop(target) on the numeric columns raises KeyError
\* when the target is not one of them.
ClassifyColumns ==
    /\ pc = "classify"
    /\ IF DropRaises(columns, {target, "timestamp"})
          \/ DropRaises(select_dtypes(columns, dtypes, NumericDtypes), {target})
       THEN /\ Abort("KeyError")
            /\ UNCHANGED <<features, num_cols, cat_cols>>
       ELSE /\ features' = Features(columns)
            /\ num_cols' = NumCols(columns, dtypes)
            /\ cat_cols' = CatCols(columns, dtypes)
            /\ pc' = "split"
            /\ UNCHANGED error
    /\ UNCHANGED <<envVars, tableVars, splitVars, searchVars, evalVars, preVars>>

\* Lines 71-74.  ValueError when the training subset would be empty.
Split ==
    /\ pc = "split"
    /\ X' = FeatureRows(data, features)
    /\ y' = TargetValues(data)
    /\ IF NTrain(Len(data)) = 0
       THEN /\ Abort("ValueError: empty train set")
            /\ UNCHANGED <<X_train, X_test>>
       ELSE /\ \E s \in Splits(data) : X_test' = s.test /\ X_train' = s.train
            /\ pc' = "grid_search"
            /\ UNCHANGED error
    /\ UNCHANGED <<envVars, tableVars, classVars, searchVars, evalVars, preVars>>

\* Lines 77-78, entry of grid_search.fit: the candidates are listed and the
\* training split is cut into folds; KFold raises ValueError when there are
\* fewer rows than folds.
GridSearchStart ==
    /\ pc = "grid_search"
    /\ IF Len(X_train) < CvFolds
       THEN /\ Abort("ValueError: n_splits greater than the number of samples")
            /\ UNCHANGED grid_search
       ELSE /\ grid_search' = [grid_search EXCEPT !.cand = 1]
            /\ pc' = "fit_and_score"
            /\ UNCHANGED error
    /\ UNCHANGED <<best_model, envVars, tableVars, classVars, splitVars, evalVars, preVars>>

\* The candidates with the best mean validation score.
Best(results) ==
    {k \in 1..Len(results) : \A j \in 1..Len(results) : results[j] <= results[k]}

\* Line 78, the search's loop: the next candidate of the grid is set on a
\* clone of the pipeline (set_params, outside the error_score guard) and
\* scored over the folds.  After the last one the best is refitted (lines
\* 78-82).
FitAndScore ==
    /\ pc = "fit_and_score"
    /\ IF ~SetParamsOk(ParameterGrid[grid_search.cand])
       THEN /\ Abort("ValueError: Invalid parameter 'alpha'")
            /\ UNCHANGED <<grid_search, best_model>>
       ELSE \E score \in Scores :
              LET results == Append(grid_search.cv_results, score) IN
              IF grid_search.cand < Len(ParameterGrid)
              THEN /\ grid_search' = [grid_search EXCEPT !.cand = @ + 1,
                                                         !.cv_results = results]
                   /\ UNCHANGED <<pc, error, best_model>>
              ELSE /\ \E b \in Best(results) :
                        /\ grid_search' = [grid_search EXCEPT
                                              !.cv_results = results,
                                              !.best_index = b,
                                              !.best_params = ParameterGrid[b]]
                        /\ best_model' = [fitted |-> TRUE, params |-> ParameterGrid[b]]
                   /\ pc' = "evaluate"
                   /\ UNCHANGED error
    /\ UNCHANGED <<envVars, tableVars, classVars, splitVars, evalVars, preVars>>

Next ==
    \/ ParseTimestamp
    \/ DropNaT
    \/ DeriveCalendar
    \/ ClassifyColumns
    \/ Split
    \/ GridSearchStart
    \/ FitAndScore

Spec == Init /\ [][Next]_vars

(***************************************************************************)
(* Lines 39-62: the pipeline.  Its steps are the library's; each is        *)
(* modelled by what it computes from the rows it is fitted on and the rows *)
(* it is applied to.  A matrix cell is a number or NaN.                    *)
(***************************************************************************)
\* The order in which np.unique sorts the strings that occur in the cells.
CategoryOrder == <<"A", "B", "C", "no", "yes">>
Position(v) == CHOOSE k \in 1..Len(CategoryOrder) : CategoryOrder[k] = v

\* One column of a table, as the sequence of its cells.
Column(rows, c) == [k \in 1..Len(rows) |-> rows[k][c]]

\* The observed (not missing) values of a numeric column.
Observed(cells) ==
    LET obs == SelectSeq(cells, LAMBDA x : ~x.nan)
    IN  [k \in 1..Len(obs) |-> obs[k].v]

\* SimpleImputer(strategy='median').statistics_: the median of the observed
\* values, NaN when there is none.  (The cells drawn are even numbers wherever
\* a column has missing cells, so the mean of the two middle values is whole.)
Median(cells) ==
    LET s == SortSeq(Observed(cells), LAMBDA a, b : a < b)
        n == Len(s)
    IN  IF n = 0 THEN NaN
        ELSE IF n % 2 = 1 THEN Num(s[(n + 1) \div 2])
        ELSE Num((s[n \div 2] + s[n \div 2 + 1]) \div 2)

\* SimpleImputer(strategy='most_frequent').statistics_: the most frequent
\* observed value, the smallest on a tie, NaN when there is none.
MostFrequent(cells) ==
    LET seen == Range(cells) \ {NaNStr}
        Count(v) == Cardinality({k \in 1..Len(cells) : cells[k] = v})
    IN  IF seen = {} THEN NaNStr
        ELSE CHOOSE v \in seen : \A w \in seen :
                 \/ Count(w) < Count(v)
                 \/ Count(w) = Count(v) /\ Position(v) <= Position(w)

\* A pipeline without the imputer step: the cell goes on as it is.
Impute_none(stat, x) == x

\* SimpleImputer.transform on one numeric cell (line 41).
Impute(stat, x) == IF x.nan THEN stat ELSE x

\* SimpleImputer.transform on one string cell (line 46).
ImputeStr(stat, x) == IF x = NaNStr THEN stat ELSE x

\* num_transformer.fit on a column (lines 40-43).  The scaler is fitted on the
\* imputed column: it keeps the number of rows and the sum of the cells.
FitNum(cells) ==
    LET med == Median(cells)
        imp == [k \in 1..Len(cells) |-> Impute(med, cells[k])]
    IN  [median |-> med, n |-> Len(cells), sum |-> Sum(Observed(imp))]

\* StandardScaler.transform (line 42) on one cell: (x - mean) / std.  The
\* model keeps whole numbers: it holds n * (x - mean) = n * x - sum and leaves
\* out the division by n * std, a positive factor fixed per column.  NaN
\* passes through the scaler.
Scale(f, x) == IF x.nan THEN NaN ELSE Num(f.n * x.v - f.sum)

\* cat_transformer.fit on a column (lines 45-48): the imputer's statistic and
\* the encoder's categories_, the sorted distinct values of the imputed column.
FitCat(cells) ==
    LET mode == MostFrequent(cells)
        imp == {ImputeStr(mode, cells[k]) : k \in 1..Len(cells)}
    IN  [mode |-> mode,
         categories |-> Filter(CategoryOrder, Range(CategoryOrder) \ imp)]

\* The encoder left at its default, which raises on an unknown category.
handle_unknown_error == "error"

\* Line 47: OneHotEncoder(handle_unknown='ignore').
handle_unknown == "ignore"

\* OneHotEncoder.transform raises ValueError on a value outside categories_
\* unless unknown values are ignored.
EncoderRaises(cats, v) == handle_unknown # "ignore" /\ v \notin Range(cats)

\* OneHotEncoder.transform on one cell: one indicator per known category.
OneHot(cats, v) == [k \in 1..Len(cats) |-> Num(IF cats[k] = v THEN 1 ELSE 0)]

\* preprocessor.fit (lines 51-55).
FitPreprocessor(rows, ncols, ccols) ==
    [num |-> [c \in Range(ncols) |-> FitNum(Column(rows, c))],
     cat |-> [c \in Range(ccols) |-> FitCat(Column(rows, c))]]

\* SimpleImputer.transform leaves out a column that had no observed value
\* when it was fitted.
KeptNum(fit, ncols) == Filter(ncols, {c \in Range(ncols) : fit.num[c].median.nan})
KeptCat(fit, ccols) == Filter(ccols, {c \in Range(ccols) : fit.cat[c].mode = NaNStr})

\* The imputers' output for one row: the cells of the kept columns, the
\* missing ones replaced.
ImputedRow(fit, row, ncols, ccols) ==
    [c \in Range(KeptNum(fit, ncols)) \cup Range(KeptCat(fit, ccols)) |->
        IF c \in Range(ncols) THEN Impute(fit.num[c].median, row[c])
        ELSE ImputeStr(fit.cat[c].mode, row[c])]

RECURSIVE Flatten(_)
Flatten(ss) == IF ss = <<>> THEN <<>> ELSE Head(ss) \o Flatten(Tail(ss))

\* preprocessor.transform on one row: the scaled numeric cells in the order
\* of num_cols, then the indicators of each categorical column in the order
\* of cat_cols.  Columns that are in neither list are dropped.
TransformRow(fit, row, ncols, ccols) ==
    LET imp == ImputedRow(fit, row, ncols, ccols)
        kn == KeptNum(fit, ncols)
        kc == KeptCat(fit, ccols)
    IN  [k \in 1..Len(kn) |-> Scale(fit.num[kn[k]], imp[kn[k]])]
        \o Flatten([k \in 1..Len(kc) |-> OneHot(fit.cat[kc[k]].categories, imp[kc[k]])])

TransformRaises(fit, row, ncols, ccols) ==
    LET imp == ImputedRow(fit, row, ncols, ccols)
    IN  \E c \in Range(KeptCat(fit, ccols)) : EncoderRaises(fit.cat[c].categories, imp[c])

\* The width of the matrix the preprocessor produces.
Width(fit, ncols, ccols) ==
    LET kc == KeptCat(fit, ccols)
    IN  Len(KeptNum(fit, ncols)) + Sum([k \in 1..Len(kc) |-> Len(fit.cat[kc[k]].categories)])

RECURSIVE Monomials(_, _, _)
\* itertools.combinations_with_replacement(range(w), k), restricted to first
\* members >= lo: the non-decreasing index sequences of length k, in
\* lexicographic order.
Monomials(k, lo, w) ==
    IF k = 0 THEN << <<>> >>
    ELSE IF lo > w THEN <<>>
    ELSE LET sub == Monomials(k - 1, lo, w)
         IN  [j \in 1..Len(sub) |-> <<lo>> \o sub[j]] \o Monomials(k, lo + 1, w)

RECURSIVE PolyTerms(_, _)
\* PolynomialFeatures(degree=d, include_bias=False) on w input features: the
\* monomials of degree 1, then 2, ... up to d.
PolyTerms(w, d) == IF d = 0 THEN <<>> ELSE PolyTerms(w, d - 1) \o Monomials(d, 1, w)

\* The widest matrix the preprocessor can produce from the columns drawn, and
\* the terms for each width and each degree of the grid, computed once.
MaxWidth == Len(RawColumns) + Len(CalendarColumns) + Len(CategoryOrder)
PolyTable == [w \in 0..MaxWidth |-> [d \in Range(Degrees) |-> PolyTerms(w, d)]]

RECURSIVE Product(_)
\* The product of a sequence of matrix cells; NaN when a factor is NaN.
Product(cells) ==
    IF cells = <<>> THEN Num(1)
    ELSE LET rest == Product(Tail(cells))
         IN  IF Head(cells).nan \/ rest.nan THEN NaN ELSE Num(Head(cells).v * rest.v)

\* PolynomialFeatures.transform on one matrix row: the product of the cells
\* each term names.
PolyRow(v, d) ==
    LET terms == PolyTable[Len(v)][d]
    IN  Tuple([j \in 1..Len(terms) |-> Product([i \in 1..Len(terms[j]) |-> v[terms[j][i]]])])

\* The estimator's input validation (check_array): ValueError on NaN.
HasNaN(matrix) == \E k \in 1..Len(matrix) : \E j \in 1..Len(matrix[k]) : matrix[k][j].nan

DefaultDegree == 2      \* line 60: PolynomialFeatures(degree=2, include_bias=False)

(***************************************************************************)
(* SpecPre: the pipeline of lines 39-62 fitted on one table and applied to *)
(* another, as grid_search.fit, best_model.predict and cross_val_score do  *)
(* with the training rows and the held-out rows.                           *)
(***************************************************************************)
MaxFitRows == 2      \* rows the pipeline is fitted on

PreFitCells == [temp : {NaN, Num(0), Num(2)}, site : {NaNStr, "A", "B"}]
PreNewCells == [temp : {NaN, Num(0), Num(4)}, site : {NaNStr, "A", "C"}]

NoPre == [fitted |-> FALSE]

InitPre ==
    /\ pc = "pipeline_fit"
    /\ error = ""
    /\ pandas2 = FALSE
    /\ csv = <<>> /\ data = <<>>
    /\ columns = <<"temp", "site">>
    /\ dtypes = [temp |-> "float64", site |-> "object"]
    /\ features = columns
    /\ num_cols = NumCols(columns, dtypes)
    /\ cat_cols = CatCols(columns, dtypes)
    /\ X = <<>> /\ y = <<>> /\ X_train = <<>> /\ X_test = <<>>
    /\ grid_search = NoSearch
    /\ best_model = NoModel
    /\ y_pred = <<>> /\ metrics = NoMetrics /\ cv_scores = <<>>
    /\ feature_importance_df = <<>> /\ charts = <<>>
    /\ \E nf \in 1..MaxFitRows :
         \E fit \in [1..nf -> PreFitCells], new \in PreNewCells :
            pre_in = [fit |-> fit, new |-> <<new>>]
    /\ pre_out = NoPre

\* pipeline.fit(X_fit, y_fit): the preprocessor is fitted on the rows and its
\* output for them, expanded, is handed to the estimator's fit.
PipelineFit ==
    /\ pc = "pipeline_fit"
    /\ LET fit == FitPreprocessor(pre_in.fit, num_cols, cat_cols)
           matrix == [k \in 1..Len(pre_in.fit) |->
                        TransformRow(fit, pre_in.fit[k], num_cols, cat_cols)]
           expanded == [k \in 1..Len(matrix) |-> PolyRow(matrix[k], DefaultDegree)]
       IN  /\ pre_out' = [fitted |-> TRUE, fit |-> fit,
                          imputed_fit |-> [k \in 1..Len(pre_in.fit) |->
                                ImputedRow(fit, pre_in.fit[k], num_cols, cat_cols)],
                          matrix_fit |-> matrix, estimator_fit |-> expanded,
                          imputed_new |-> <<>>, matrix_new |-> <<>>,
                          estimator_new |-> <<>>]
           /\ IF HasNaN(expanded)
              THEN Abort("ValueError: Input X contains NaN")
              ELSE pc' = "pipeline_predict" /\ UNCHANGED error
    /\ UNCHANGED <<pre_in, envVars, tableVars, classVars, splitVars, searchVars, evalVars>>

\* pipeline.predict(X_new): the fitted preprocessor is applied to the rows and
\* its output, expanded, is handed to the estimator's predict.
PipelinePredict ==
    /\ pc = "pipeline_predict"
    /\ IF \E k \in 1..Len(pre_in.new) :
             TransformRaises(pre_out.fit, pre_in.new[k], num_cols, cat_cols)
       THEN /\ Abort("ValueError: Found unknown categories")
            /\ UNCHANGED pre_out
       ELSE LET matrix == [k \in 1..Len(pre_in.new) |->
                             TransformRow(pre_out.fit, pre_in.new[k], num_cols, cat_cols)]
                expanded == [k \in 1..Len(matrix) |-> PolyRow(matrix[k], DefaultDegree)]
            IN  /\ pre_out' = [pre_out EXCEPT
                                  !.imputed_new = [k \in 1..Len(pre_in.new) |->
                                      ImputedRow(pre_out.fit, pre_in.new[k], num_cols, cat_cols)],
                                  !.matrix_new = matrix,
                                  !.estimator_new = expanded]
                /\ IF HasNaN(expanded)
                   THEN Abort("ValueError: Input X contains NaN")
                   ELSE pc' = "predicted" /\ UNCHANGED error
    /\ UNCHANGED <<pre_in, envVars, tableVars, classVars, splitVars, searchVars, evalVars>>

NextPre == PipelineFit \/ PipelinePredict

SpecPre == InitPre /\ [][NextPre]_vars

(***************************************************************************)
(* Lines 84-136: the evaluator.                                            *)
(***************************************************************************)
\* The rows of table rows with the given labels, in the labels' order.
RowsAt(rows, labels) ==
    Tuple([k \in 1..Len(labels) |->
              rows[CHOOSE j \in 1..Len(rows) : rows[j].label = labels[k]]])

\* The estimator's fit is the library's: what it leaves is one coefficient per
\* expanded feature and an intercept.  The model gives them fixed values, a
\* sparse fit: -1, 0, 1, 2 on the first four features and 0 on the others.
coef_(n) == [j \in 1..n |-> IF j <= 4 THEN j - 2 ELSE 0]
intercept_ == 1      \* the fitted intercept, a fixed value like the coefficients

\* Lines 78-81: best_estimator_, the pipeline with the selected parameters
\* refitted on the training split.
Refit(params, train_rows, ncols, ccols) ==
    LET fit == FitPreprocessor(train_rows, ncols, ccols)
        w == Width(fit, ncols, ccols)
    IN  [fitted |-> TRUE, params |-> params, pre |-> fit, n_features_in |-> w,
         coef |-> coef_(Len(PolyTable[w][params.degree])),
         intercept |-> intercept_]

\* The matrix the estimator is handed for the rows: the preprocessor's output,
\* expanded to the selected degree.
EstimatorInput(model, rows, ncols, ccols) ==
    Tuple([k \in 1..Len(rows) |->
              PolyRow(TransformRow(model.pre, rows[k], ncols, ccols), model.params.degree)])

\* The linear estimator's predict on one expanded row.
LinearPredict(model, v) ==
    model.intercept + Sum([j \in 1..Len(v) |-> model.coef[j] * v[j].v])

\* The target values in index order, whatever the order of the labels.
TargetAt_index_order(yy, labels) ==
    LET hit == SelectSeq(yy, LAMBDA e : e.label \in Range(labels))
    IN  [k \in 1..Len(hit) |-> hit[k].v]

\* y_test: the target values of the given labels, in the labels' order.
TargetAt(yy, labels) ==
    [k \in 1..Len(labels) |->
        yy[CHOOSE j \in 1..Len(yy) : yy[j].label = labels[k]].v]

Abs(n) == IF n < 0 THEN -n ELSE n

\* mean_squared_error(y_true, y_pred), as the fraction num / den.
mean_squared_error(y_true, y_hat) ==
    [num |-> Sum([k \in 1..Len(y_true) |-> (y_true[k] - y_hat[k]) * (y_true[k] - y_hat[k])]),
     den |-> Len(y_true)]

\* mean_absolute_error(y_true, y_pred), as the fraction num / den.
mean_absolute_error(y_true, y_hat) ==
    [num |-> Sum([k \in 1..Len(y_true) |-> Abs(y_true[k] - y_hat[k])]),
     den |-> Len(y_true)]

\* r2_score(y_true, y_pred) = 1 - ss_res / ss_tot, both sums held times n.
r2_score(y_true, y_hat) ==
    LET n == Len(y_true)
    IN  [ss_res |-> n * Sum([k \in 1..n |-> (y_true[k] - y_hat[k]) * (y_true[k] - y_hat[k])]),
         ss_tot |-> n * Sum([k \in 1..n |-> y_true[k] * y_true[k]])
                    - Sum(y_true) * Sum(y_true)]

\* KFold(n_splits=5).split on n rows: the positions of fold k.  The first
\* n % 5 folds hold one row more than the others; the folds are consecutive.
FoldSize(n, k) == (n \div CvFolds) + (IF k <= n % CvFolds THEN 1 ELSE 0)
FoldStart(n, k) == Sum([j \in 1..(k - 1) |-> FoldSize(n, j)])
KFold(n, k) == (FoldStart(n, k) + 1)..(FoldStart(n, k) + FoldSize(n, k))

\* hasattr(estimator, 'coef_') after fit (line 106).
HasCoef(est) == est \in {"LinearRegression", "Ridge", "Lasso"}

\* Line 108: poly_features.get_feature_names_out(num_cols): ValueError when
\* the names given are not as many as the features the step was fitted on.
FeatureNamesRaise(model, ncols) == Len(ncols) # model.n_features_in

\* The name of each expanded feature, as the columns it multiplies.
FeatureNames(model, ncols) ==
    LET terms == PolyTable[Len(ncols)][model.params.degree]
    IN  [j \in 1..Len(terms) |-> [i \in 1..Len(terms[j]) |-> ncols[terms[j][i]]]]

\* Lines 109-110: the table of names and coefficients, sorted by descending
\* coefficient.  (The order of equal coefficients is the sort's own.)
ImportanceTable(names, coef) ==
    SortSeq([j \in 1..Len(coef) |-> [feature |-> names[j], importance |-> coef[j]]],
            LAMBDA a, b : a.importance > b.importance)

\* Line 120: data.corr().  Up to pandas 1.5 the columns that are not numeric
\* are left out; from pandas 2.0 a column that does not convert to float (a
\* string or a timestamp column) makes it raise.
CorrRaises(cols, dt, p2) ==
    p2 /\ \E c \in Range(cols) : dt[c] \in {"object", "datetime64[ns]"}

\* Line 125: data.set_index('timestamp'): the timestamps become the labels
\* and the column leaves the table.  Line 126: the new column, all NaN.
SetIndexRow(row) ==
    [c \in (DOMAIN row \ {"timestamp"}) \cup {"predicted_consumption"} |->
        IF c = "label" THEN TimeLabel(row.timestamp)
        ELSE IF c = "predicted_consumption" THEN NaN
        ELSE row[c]]

\* Line 127: data.loc[labels, 'predicted_consumption'] = values: KeyError
\* when a label is not in the index.
LocRaises(rows, labels) == \E l \in Range(labels) : l \notin Labels(rows)

\* Line 127 when every label is found: the k-th value goes to the row
\* labelled by the k-th label.
LocAssign(rows, labels, values) ==
    [k \in 1..Len(rows) |->
        IF rows[k].label \in Range(labels)
        THEN [rows[k] EXCEPT !.predicted_consumption =
                 Num(values[CHOOSE j \in 1..Len(labels) : labels[j] = rows[k].label])]
        ELSE rows[k]]

(***************************************************************************)
(* SpecEval: the evaluator, started where grid_search.fit returns a        *)
(* selected model: the dataset as lines 15-37 leave it, a split of it, and *)
(* a candidate of the grid that set_params accepts, refitted on the        *)
(* training split.  Under Spec the search raises on its first candidate    *)
(* (FitAndScore) and never hands a model over; SpecEval is the evaluator   *)
(* taken on its own.                                                       *)
(***************************************************************************)
MaxDropped == 1      \* lines of the file dropped for their timestamp (SpecEval)

\* The least number of rows whose training split holds a row per fold.
SearchRows == CHOOSE m \in 1..(2 * CvFolds) :
                 /\ NTrain(m) >= CvFolds
                 /\ \A j \in 1..(m - 1) : NTrain(j) < CvFolds

\* The schemas whose target the classifier accepts.
EvalSchemas == {sc \in Schemas : sc[target] \in NumericDtypes}

\* The candidates a search could select.
EvalParams == {ParameterGrid[k] : k \in {j \in 1..Len(ParameterGrid) : SetParamsOk(ParameterGrid[j])}}

\* The lines of the file whose timestamp does not parse: every second line,
\* d of them, so that the labels of the rows kept have gaps.
DroppedLines(d) == {2 * k : k \in 1..d}

InitEval ==
    /\ pc = "evaluate"
    /\ error = ""
    /\ pandas2 \in BOOLEAN
    /\ columns = RawColumns \o CalendarColumns
    /\ \E schema \in EvalSchemas, d \in 0..MaxDropped :
          /\ csv = read_csv([k \in 1..(SearchRows + d) |->
                               IF k \in DroppedLines(d) THEN "not a date"
                               ELSE StampTable[k].text], schema)
          /\ dtypes = DerivedDtypes(schema, pandas2)
    /\ data = LET kept == dropna(ParsedRows(csv))
              IN  [k \in 1..Len(kept) |-> WithCalendar(kept[k])]
    /\ features = Features(columns)
    /\ num_cols = NumCols(columns, dtypes)
    /\ cat_cols = CatCols(columns, dtypes)
    /\ X = FeatureRows(data, features)
    /\ y = TargetValues(data)
    /\ \E s \in Splits(data) : X_test = s.test /\ X_train = s.train
    /\ \E params \in EvalParams :
          /\ grid_search = [cand |-> Len(ParameterGrid), cv_results |-> <<>>,
                            best_index |-> CHOOSE k \in 1..Len(ParameterGrid) :
                                              ParameterGrid[k] = params,
                            best_params |-> params]
          /\ best_model = Refit(params, RowsAt(X, X_train), num_cols, cat_cols)
    /\ Untouched

\* Lines 84-89: the predictions for the test subset and the three metrics.
Evaluate ==
    /\ pc = "evaluate"
    /\ \E rows \in {RowsAt(X, X_test)} :
          IF \E k \in 1..Len(rows) :
                 TransformRaises(best_model.pre, rows[k], num_cols, cat_cols)
          THEN /\ Abort("ValueError: Found unknown categories")
               /\ UNCHANGED <<y_pred, metrics>>
          ELSE \E input \in {EstimatorInput(best_model, rows, num_cols, cat_cols)} :
                 IF HasNaN(input)
                 THEN /\ Abort("ValueError: Input X contains NaN")
                      /\ UNCHANGED <<y_pred, metrics>>
                 ELSE /\ y_pred' = [k \in 1..Len(input) |->
                                       LinearPredict(best_model, input[k])]
                      /\ \E y_test \in {TargetAt(y, X_test)} :
                            metrics' = [computed |-> TRUE,
                                        mse |-> mean_squared_error(y_test, y_pred'),
                                        mae |-> mean_absolute_error(y_test, y_pred'),
                                        r2 |-> r2_score(y_test, y_pred')]
                      /\ pc' = "scatter"
                      /\ UNCHANGED error
    /\ UNCHANGED <<cv_scores, feature_importance_df, charts, envVars, tableVars,
                   classVars, splitVars, searchVars, preVars>>

\* Lines 91-98.
ScatterPlot ==
    /\ pc = "scatter"
    /\ charts' = Append(charts, "true_vs_predicted")
    /\ pc' = "cross_val"
    /\ UNCHANGED <<error, y_pred, metrics, cv_scores, feature_importance_df, envVars,
                   tableVars, classVars, splitVars, searchVars, preVars>>

\* Lines 100-103: cross_val_score over the whole dataset.  A score is r2, the
\* library's; the model keeps which rows each score was taken on.
CrossValidate ==
    /\ pc = "cross_val"
    /\ IF Len(X) < CvFolds
       THEN /\ Abort("ValueError: n_splits greater than the number of samples")
            /\ UNCHANGED cv_scores
       ELSE /\ cv_scores' = [k \in 1..CvFolds |->
                               [validated_on |-> {X[j].label : j \in KFold(Len(X), k)}]]
            /\ pc' = "importance"
            /\ UNCHANGED error
    /\ UNCHANGED <<y_pred, metrics, feature_importance_df, charts, envVars, tableVars,
                   classVars, splitVars, searchVars, preVars>>

\* Lines 105-116.
FeatureImportance ==
    /\ pc = "importance"
    /\ IF ~HasCoef(best_model.params.model)
       THEN /\ pc' = "heatmap"
            /\ UNCHANGED <<error, feature_importance_df, charts>>
       ELSE IF FeatureNamesRaise(best_model, num_cols)
       THEN /\ Abort("ValueError: input_features should have length equal to number of features")
            /\ UNCHANGED <<feature_importance_df, charts>>
       ELSE /\ feature_importance_df' =
                  ImportanceTable(FeatureNames(best_model, num_cols), best_model.coef)
            /\ charts' = Append(charts, "feature_importance")
            /\ pc' = "heatmap"
            /\ UNCHANGED error
    /\ UNCHANGED <<y_pred, metrics, cv_scores, envVars, tableVars, classVars,
                   splitVars, searchVars, preVars>>

\* Lines 118-122.
CorrelationHeatmap ==
    /\ pc = "heatmap"
    /\ IF CorrRaises(columns, dtypes, pandas2)
       THEN /\ Abort("ValueError: could not convert to float")
            /\ UNCHANGED charts
       ELSE /\ charts' = Append(charts, "correlation_heatmap")
            /\ pc' = "time_series"
            /\ UNCHANGED error
    /\ UNCHANGED <<y_pred, metrics, cv_scores, feature_importance_df, envVars,
                   tableVars, classVars, splitVars, searchVars, preVars>>

\* Lines 124-136: the merge of the predictions into the dataset and the plot
\* over time.
TimeSeries ==
    /\ pc = "time_series"
    /\ columns' = Filter(columns, {"timestamp"}) \o <<"predicted_consumption">>
    /\ dtypes' = [c \in (DOMAIN dtypes \ {"timestamp"}) \cup {"predicted_consumption"} |->
                    IF c = "predicted_consumption" THEN "float64" ELSE dtypes[c]]
    /\ LET indexed == [k \in 1..Len(data) |-> SetIndexRow(data[k])]
       IN  IF LocRaises(indexed, X_test)
           THEN /\ data' = indexed
                /\ Abort("KeyError: labels not in index")
                /\ UNCHANGED charts
           ELSE /\ data' = LocAssign(indexed, X_test, y_pred)
                /\ charts' = Append(charts, "actual_vs_predicted_over_time")
                /\ pc' = "done"
                /\ UNCHANGED error
    /\ UNCHANGED <<y_pred, metrics, cv_scores, feature_importance_df, envVars,
                   classVars, splitVars, searchVars, preVars>>

NextEval ==
    \/ Evaluate
    \/ ScatterPlot
    \/ CrossValidate
    \/ FeatureImportance
    \/ CorrelationHeatmap
    \/ TimeSeries

SpecEval == InitEval /\ [][NextEval]_vars

(***************************************************************************)
(* Claims checked under Spec.                                              *)
(***************************************************************************)
ParsableTexts == {StampTable[k].text : k \in 1..Len(StampTable)}
ParsedLabels == {csv[k].label : k \in {j \in 1..Len(csv) : csv[j].timestamp \in ParsableTexts}}
WholeGrid ==
    {[model |-> m, alpha |-> a, degree |-> d] :
        m \in Range(Estimators), a \in Range(Alphas), d \in Range(Degrees)}

\* C4: once the timestamps are parsed and the failures dropped (line 24), the
\* dataset holds no row whose timestamp failed to parse, holds every row of
\* the file whose timestamp parsed, and the split hands on only such rows.
C4_UnparsedRowsDropped ==
    pc \notin {"parse_timestamp", "dropna"} =>
        /\ \A k \in 1..Len(data) : ~data[k].timestamp.nat
        /\ Labels(data) = ParsedLabels
        /\ Len(data) = Cardinality(ParsedLabels)
        /\ Range(X_train) \cup Range(X_test) \subseteq ParsedLabels

\* C4 witness: the drop has run on a file with both parsed and unparsed
\* timestamps, and the split has been made from what is left.
C4_Witness ==
    /\ pc = "grid_search"
    /\ Len(data) < Len(csv)
    /\ \E k \in 1..Len(csv) : csv[k].timestamp = "not a date"
    /\ \E k \in 1..Len(csv) : csv[k].timestamp = NaNStr
    /\ Len(data) >= 2

\* C5: a split that was made is a partition of the dataset's rows: the test
\* and training subsets are disjoint, together they are all rows, the test
\* subset holds 20% of the rows rounded up and the training subset the rest;
\* and the split is made whenever the dataset has at least two rows.
C5_SplitPartitions ==
    /\ X_test # <<>> =>
          /\ Range(X_test) \cap Range(X_train) = {}
          /\ Range(X_test) \cup Range(X_train) = Labels(data)
          /\ Cardinality(Range(X_test)) = Len(X_test)
          /\ Cardinality(Range(X_train)) = Len(X_train)
          /\ 5 * Len(X_test) >= Len(data)
          /\ 5 * (Len(X_test) - 1) < Len(data)
          /\ Len(X_train) = Len(data) - Len(X_test)
    /\ (pc = "aborted" /\ error = "ValueError: empty train set") => Len(data) < 2

\* C5 witness: a split of a dataset whose size is no multiple of five, with
\* rows dropped before it.
C5_Witness ==
    /\ pc = "grid_search"
    /\ Len(X_test) = 2 /\ Len(X_train) = 4
    /\ Len(csv) > Len(data)

\* C2 (as claimed): once the columns are classified, every column other than
\* the target and the timestamp is in exactly one of num_cols and cat_cols,
\* the two are disjoint, and neither holds the target or the timestamp.
C2_ClassifierPartitions ==
    features # <<>> =>
        /\ \A c \in Range(columns) \ {target, "timestamp"} :
              (c \in Range(num_cols)) # (c \in Range(cat_cols))
        /\ Range(num_cols) \cap Range(cat_cols) = {}
        /\ (Range(num_cols) \cup Range(cat_cols)) \cap {target, "timestamp"} = {}

\* C3 (as claimed): a search that has started on a training split large
\* enough for its folds ends with every cell of the 3 x 3 x 3 cross product
\* accepted as a configuration and scored, with best_params_ a cell whose
\* score no other cell exceeds, refitted as best_estimator_.
C3_SearchScoresWholeGrid ==
    (grid_search.cand >= 1 /\ pc # "fit_and_score") =>
        /\ Range(ParameterGrid) = WholeGrid
        /\ Len(grid_search.cv_results) = Cardinality(WholeGrid)
        /\ \A k \in 1..Len(ParameterGrid) : SetParamsOk(ParameterGrid[k])
        /\ grid_search.best_index \in 1..Len(ParameterGrid)
        /\ \A k \in 1..Len(ParameterGrid) :
              grid_search.cv_results[k] <= grid_search.cv_results[grid_search.best_index]
        /\ grid_search.best_params = ParameterGrid[grid_search.best_index]
        /\ best_model.fitted /\ best_model.params = grid_search.best_params

(***************************************************************************)
(* Claims checked under SpecPre.                                           *)
(***************************************************************************)
\* The tables the pipeline has seen so far, each with the imputers' output
\* and the matrix handed to the estimator.
PreTables ==
    IF ~pre_out.fitted THEN {}
    ELSE {[rows |-> pre_in.fit, imputed |-> pre_out.imputed_fit,
           estimator |-> pre_out.estimator_fit]}
         \cup (IF pre_out.imputed_new = <<>> THEN {}
               ELSE {[rows |-> pre_in.new, imputed |-> pre_out.imputed_new,
                      estimator |-> pre_out.estimator_new]})

\* The values of column c among the rows the pipeline was fitted on.
FitValues(c) == {pre_in.fit[k][c] : k \in 1..Len(pre_in.fit)}

\* m is a median of the observed values of numeric column c in the fitting
\* rows: at most half of them lie below it and at most half above.
IsFitMedian(c, m) ==
    LET obs == {k \in 1..Len(pre_in.fit) : ~pre_in.fit[k][c].nan}
    IN  /\ ~m.nan
        /\ 2 * Cardinality({k \in obs : pre_in.fit[k][c].v < m.v}) <= Cardinality(obs)
        /\ 2 * Cardinality({k \in obs : pre_in.fit[k][c].v > m.v}) <= Cardinality(obs)

\* v is a most frequent observed value of string column c in the fitting rows.
IsFitMode(c, v) ==
    LET Count(w) == Cardinality({k \in 1..Len(pre_in.fit) : pre_in.fit[k][c] = w})
    IN  /\ v \in FitValues(c) \ {NaNStr}
        /\ \A w \in FitValues(c) \ {NaNStr} : Count(w) <= Count(v)

NoNullAtEstimator ==
    /\ error # "ValueError: Input X contains NaN"
    /\ \A t \in PreTables : ~HasNaN(t.estimator)

SiteIndicators(k) ==
    LET row == pre_out.matrix_new[k]
        cats == pre_out.fit.cat["site"].categories
    IN  SubSeq(row, Len(row) - Len(cats) + 1, Len(row))

\* C8: the encoding step never fails on a value it did not see while fitting;
\* such a value gets an indicator vector that is zero at every known
\* category, and a value that was seen gets exactly one 1, at its own
\* category's position.
C8_UnknownCategoryIsZeroVector ==
    /\ error # "ValueError: Found unknown categories"
    /\ (pre_out.fitted /\ FitValues("site") # {NaNStr}) =>
          LET cats == pre_out.fit.cat["site"].categories IN
          /\ Range(cats) = FitValues("site") \ {NaNStr}
          /\ Len(cats) = Cardinality(Range(cats))
          /\ pre_out.matrix_new # <<>> =>
                \A k \in 1..Len(pre_in.new) :
                   LET v == pre_in.new[k].site
                       hot == SiteIndicators(k)
                   IN  /\ Len(hot) = Len(cats)
                       /\ (v # NaNStr /\ v \notin FitValues("site")) =>
                             \A j \in 1..Len(hot) : hot[j] = Num(0)
                       /\ v \in FitValues("site") \ {NaNStr} =>
                             \A j \in 1..Len(hot) :
                                hot[j] = Num(IF cats[j] = v THEN 1 ELSE 0)

\* C8 witness: a fitted encoder with two known categories has encoded a
\* value it never saw.
C8_Witness ==
    /\ pc = "predicted"
    /\ FitValues("site") = {"A", "B"}
    /\ \E k \in 1..Len(pre_in.new) : pre_in.new[k].site = "C"
    /\ \A k \in 1..Len(pre_in.new) :
          pre_in.new[k].site = "C" => \A j \in 1..2 : SiteIndicators(k)[j] = Num(0)

(***************************************************************************)
(* Claims checked under SpecEval.                                          *)
(***************************************************************************)
\* The positions in the dataset of the rows of the test subset.
TestPositions == {j \in 1..Len(X) : X[j].label \in Range(X_test)}

\* The place of the row at position j of the dataset in the test subset.
PlaceInTest(j) == CHOOSE k \in 1..Len(X_test) : X_test[k] = X[j].label

\* The charts of the run that the importance branch does not draw.
AlwaysCharts == SelectSeq(charts, LAMBDA c : c # "feature_importance")

\* C6: the reported mean squared error is the mean, over exactly the rows of
\* the test subset (no training row, every test row, each once), of the
\* squared difference between the selected model's prediction for the row and
\* the row's own target value.
C6_MseOverTestRows ==
    metrics.computed =>
        /\ Cardinality(TestPositions) = Len(X_test)
        /\ \A j \in TestPositions : X[j].label \notin Range(X_train)
        /\ \A j \in TestPositions :
              \A input \in {PolyRow(TransformRow(best_model.pre, X[j], num_cols, cat_cols),
                                    best_model.params.degree)} :
                  y_pred[PlaceInTest(j)] = LinearPredict(best_model, input)
        /\ metrics.mse.den = Cardinality(TestPositions)
        /\ metrics.mse.num =
              Sum([j \in 1..Len(X) |->
                     IF j \in TestPositions
                     THEN (y_pred[PlaceInTest(j)] - y[j].v) * (y_pred[PlaceInTest(j)] - y[j].v)
                     ELSE 0])

\* The metrics are reported for a dataset that lost a line to its timestamp,
\* has a categorical column, and whose test subset is not in index order; the
\* predictions are not all exact.
C6_Witness ==
    /\ metrics.computed
    /\ Len(csv) > Len(data)
    /\ cat_cols # <<>>
    /\ Len(X_test) = 2 /\ X_test[1].v > X_test[2].v
    /\ y[(CHOOSE j \in 1..Len(y) : y[j].label = X_test[1])].v # y[(CHOOSE j \in 1..Len(y) : y[j].label = X_test[2])].v
    /\ metrics.mse.num > 0

\* C1: once the merge step has added the predicted_consumption column, the
\* cell of every row of the test subset is the prediction computed for that
\* row and the cell of every other row is missing.
C1_PredictionsMergedByRow ==
    "predicted_consumption" \in Range(columns) =>
        \A j \in 1..Len(data) :
            IF j \in TestPositions
            THEN data[j].predicted_consumption = Num(y_pred[PlaceInTest(j)])
            ELSE data[j].predicted_consumption = NaN

\* C9: the importance step does not fail, and once it is over the table has
\* one row per coefficient, the j-th coefficient paired with the name of the
\* j-th expanded feature, in descending order of coefficient.
C9_ImportanceTableBuilt ==
    /\ error # "ValueError: input_features should have length equal to number of features"
    /\ pc \in {"heatmap", "time_series", "done"} /\ HasCoef(best_model.params.model) =>
          /\ Len(feature_importance_df) = Len(best_model.coef)
          /\ \A k \in 1..(Len(feature_importance_df) - 1) :
                feature_importance_df[k].importance >= feature_importance_df[k + 1].importance
          /\ \A j \in 1..Len(best_model.coef) :
                \E k \in 1..Len(feature_importance_df) :
                    /\ feature_importance_df[k].importance = best_model.coef[j]
                    /\ feature_importance_df[k].feature =
                          FeatureNames(best_model, num_cols)[j]

\* C10: no run of the evaluator ends in an abort, and a run that has ended
\* has drawn the scatter, then the heatmap, then the overlay over time.
C10_AllChartsRendered ==
    /\ pc # "aborted"
    /\ pc = "done" =>
          AlwaysCharts = <<"true_vs_predicted", "correlation_heatmap",
                           "actual_vs_predicted_over_time">>

====
